---- MODULE Spec2Model ----
(***************************************************************************)
(* A model of eri (cezarmathe/eri): configuration loading, namespace       *)
(* resolution with override merging, template registration, rendering and  *)
(* data-file generation, as driven by main.                                *)
(*                                                                         *)
(* Strings are sequences of one-character strings, so that split, join,    *)
(* starts_with and the ordering of BTreeSet<String> are computed the way   *)
(* the code computes them.                                                 *)
(***************************************************************************)
EXTENDS Integers, Sequences, FiniteSets, TLC

VARIABLES
    pc,          \* position of main: "open", "namespaces", "run", "done", "exit", "panic",
                 \* or the position of one of the function-level specifications
    cmd,         \* the subcommand: "render" or "gendata"
    config,      \* EriConfig: [export, namespace]
    fs,          \* the file system: [dirs, out]
    namespaces,  \* Vec<Namespace> built by EriConfig::namespaces
    nsIdx,       \* index of the namespace main's loop is at
    phase,       \* position inside Namespace::render / gen_data_file
    templates,   \* Vec<Template> of the namespace being processed
    tIdx,        \* index of the template the inner loop is at
    registry,    \* the Handlebars registry: template name -> parsed elements
    errors,      \* what main logged with log::error!, in order
    exitCode,    \* process exit status; -1 while running
    arg,         \* input of a function-level specification
    ret          \* its result

vars == <<pc, cmd, config, fs, namespaces, nsIdx, phase, templates, tIdx,
          registry, errors, exitCode, arg, ret>>

(***************************************************************************)
(* Strings                                                                 *)
(***************************************************************************)

\* Byte value of a character (ASCII), the order str's Ord compares by.
Ord(c) ==
    CASE c = "." -> 46
      [] c = "/" -> 47
      [] c = "=" -> 61
      [] c = "a" -> 97
      [] c = "b" -> 98
      [] c = "c" -> 99
      [] c = "e" -> 101
      [] c = "f" -> 102
      [] c = "i" -> 105
      [] c = "j" -> 106
      [] c = "k" -> 107
      [] c = "n" -> 110
      [] c = "o" -> 111
      [] c = "r" -> 114
      [] c = "t" -> 116
      [] c = "u" -> 117
      [] c = "x" -> 120
      [] c = "y" -> 121
      [] c = "z" -> 122

\* s < t for Rust Strings: lexicographic by bytes, a proper prefix is smaller.
RECURSIVE StrLess(_, _)
StrLess(s, t) ==
    IF t = <<>> THEN FALSE
    ELSE IF s = <<>> THEN TRUE
    ELSE IF Ord(Head(s)) < Ord(Head(t)) THEN TRUE
    ELSE IF Ord(Head(s)) > Ord(Head(t)) THEN FALSE
    ELSE StrLess(Tail(s), Tail(t))

\* str::starts_with
StartsWith(s, p) ==
    /\ Len(p) <= Len(s)
    /\ SubSeq(s, 1, Len(p)) = p

\* str::split(c).collect::<Vec<&str>>(): always at least one part.
RECURSIVE Split(_, _)
Split(s, c) ==
    IF \A i \in 1..Len(s) : s[i] # c THEN <<s>>
    ELSE LET i == CHOOSE j \in 1..Len(s) :
                      /\ s[j] = c
                      /\ \A h \in 1..(j - 1) : s[h] # c
         IN <<SubSeq(s, 1, i - 1)>> \o Split(SubSeq(s, i + 1, Len(s)), c)

\* [&str]::join(c)
RECURSIVE Join(_, _)
Join(parts, c) ==
    IF parts = <<>> THEN <<>>
    ELSE IF Len(parts) = 1 THEN parts[1]
    ELSE parts[1] \o <<c>> \o Join(Tail(parts), c)

\* The members of a set of strings in ascending order (BTreeSet / BTreeMap iteration).
RECURSIVE SortedSeq(_)
SortedSeq(S) ==
    IF S = {} THEN <<>>
    ELSE LET m == CHOOSE x \in S : \A y \in S \ {x} : StrLess(x, y)
         IN <<m>> \o SortedSeq(S \ {m})

(***************************************************************************)
(* serde_json::Value                                                       *)
(***************************************************************************)

EmptyMap == [k \in {} |-> 0]

Null == [kind |-> "Null", num |-> 0, obj |-> EmptyMap]
Bool == [kind |-> "Bool", num |-> 0, obj |-> EmptyMap]
String == [kind |-> "String", num |-> 0, obj |-> EmptyMap]
Number(n) == [kind |-> "Number", num |-> n, obj |-> EmptyMap]
Object(m) == [kind |-> "Object", num |-> 0, obj |-> m]

\* Map::insert
MapInsert(m, key, v) ==
    [k \in DOMAIN m \cup {key} |-> IF k = key THEN v ELSE m[k]]

\* A plausible slip: entries already in the map win over the appended ones.
MapAppendKeepOld(m, other) ==
    [k \in DOMAIN m \cup DOMAIN other |-> IF k \in DOMAIN m THEN m[k] ELSE other[k]]

\* Map::append: moves every entry of other into m, replacing equal keys.
MapAppend(m, other) ==
    [k \in DOMAIN m \cup DOMAIN other |-> IF k \in DOMAIN other THEN other[k] ELSE m[k]]

(***************************************************************************)
(* config.rs: map_mode                                                     *)
(***************************************************************************)

None == [some |-> FALSE, val |-> 0]
Some(v) == [some |-> TRUE, val |-> v]

Ok(v) == [status |-> "Ok", val |-> v]
Err(e) == [status |-> "Err", val |-> e]
Panic(e) == [status |-> "Panic", val |-> e]

\* A plausible slip: the decimal value is used as the mode bits unchanged.
MapModeDecimal(src) ==
    IF src.kind = "Null" THEN Ok(None)
    ELSE IF src.kind # "Number" THEN Err("WrongType")
    ELSE IF src.num < 0 THEN Err("Conversion")
    ELSE Ok(Some(src.num))

\* fn map_mode(src: ObjectRef) -> Result<Option<Mode>, ObjectError>
\* The conversion to u32 fails for a negative integer; it also fails above
\* u32::MAX, and the sum cannot overflow a u32 below it: both are beyond the
\* integers drawn here.
MapMode(src) ==
    IF src.kind = "Null" THEN Ok(None)
    ELSE IF src.kind # "Number" THEN Err("WrongType")
    ELSE IF src.num < 0 THEN Err("Conversion")
    ELSE LET val == src.num
             user_value == val \div 100
             group_value == (val % 100) \div 10
             all_value == val % 10
         IN Ok(Some(user_value * 64 + group_value * 8 + all_value))

(***************************************************************************)
(* The file system the program reads                                       *)
(***************************************************************************)

\* A few strings the program and its inputs use.
sA == <<"a">>
sB == <<"b">>
sAB == <<"a", "/", "b">>
sK == <<"k">>
sX == <<"x">>
sY == <<"y">>
sZ == <<"z">>
sT == <<"t">>
sU == <<"u">>
sEriConf == <<"e", "r", "i", ".", "c", "o", "n", "f">>
sOut == <<"o", "u", "t">>

\* <namespace-dir>/eri.conf: absent, a file that parses to items, or a file that
\* cannot be read or parsed.
\* lines is the text gen_data_file wrote, for a file it generated.
ConfAbsent == [kind |-> "absent", items |-> EmptyMap, lines |-> <<>>]
ConfBad == [kind |-> "bad", items |-> EmptyMap, lines |-> <<>>]
ConfFile(items) == [kind |-> "file", items |-> items, lines |-> <<>>]
ConfGenerated(lines) == [kind |-> "generated", items |-> EmptyMap, lines |-> lines]

\* backups: the contents of the eri.conf.bk_<time> files, oldest first.
NoDir == [is_dir |-> FALSE, conf |-> ConfAbsent, entries |-> <<>>, backups |-> <<>>]
Dir(conf, entries) ==
    [is_dir |-> TRUE, conf |-> conf, entries |-> entries, backups |-> <<>>]

\* std::fs::read_dir(base_path): eri.conf, when there, is one of the entries.
ReadDir(dir) ==
    (IF dir.conf.kind = "absent" THEN <<>>
     ELSE <<[file_name |-> sEriConf, is_dir |-> FALSE, ok |-> FALSE,
             elements |-> <<>>, uid |-> 0, gid |-> 0, mode |-> 0]>>)
    \o dir.entries

(***************************************************************************)
(* namespace.rs: Namespace::new                                            *)
(***************************************************************************)

\* pub fn new(name, export_config, data) -> Result<Self>
\* dirs is the file system below the current directory: name -> directory.
NamespaceNew(name, export_config, data, dirs) ==
    IF ~(name \in DOMAIN dirs /\ dirs[name].is_dir)
    THEN Err("namespace does not have a directory")
    ELSE LET conf == dirs[name].conf
             new_values == conf.items
             mk(d) == Ok([name |-> name, base_path |-> name,
                          export_config |-> export_config, data |-> d])
         IN IF conf.kind = "bad" THEN Err("override cannot be read or parsed")
            ELSE IF conf.kind = "file" /\ DOMAIN new_values # {}
            THEN IF name \in DOMAIN data /\ data[name].kind # "Object"
                 THEN Panic("something messed up the data")
                 ELSE LET namespace_data ==
                              IF name \in DOMAIN data THEN data[name].obj ELSE EmptyMap
                          value == Object(MapAppend(namespace_data, new_values))
                      IN mk(MapInsert(data, name, value))
            ELSE mk(data)

(***************************************************************************)
(* template.rs: Template                                                   *)
(***************************************************************************)

\* One element of a parsed handlebars template. kind is the TemplateElement
\* variant, param the Parameter variant of its name, relative whether a Path
\* is Path::Relative, raw the path as written.
Element(kind, param, relative, raw) ==
    [kind |-> kind, param |-> param, relative |-> relative, raw |-> raw]

\* {{raw}}: an Expression whose name is a relative path.
Var(raw) == Element("Expression", "Path", TRUE, raw)

\* A directory entry that is a template source file.
File(file_name, ok, elements, uid, gid, mode) ==
    [file_name |-> file_name, is_dir |-> FALSE, ok |-> ok, elements |-> elements,
     uid |-> uid, gid |-> gid, mode |-> mode]

\* A Template::new that takes owner, group and mode from the source file
\* whether or not the policy sets them.
TemplateNewOverwriting(name, entry, data, export_config) ==
    IF entry.is_dir
    THEN Panic("template is not supposed to be created with a directory path")
    ELSE IF entry.uid = "?" THEN Err("no user found")
    ELSE IF entry.gid = "?" THEN Err("no group found")
    ELSE Ok([name |-> name,
             path |-> entry,
             data |-> data,
             export_config |-> [dir |-> export_config.dir,
                                user |-> Some(entry.uid),
                                group |-> Some(entry.gid),
                                permissions |-> Some(entry.mode)]])

\* pub fn new(name, path, data, export_config) -> Result<Self>
\* entry is what the file system holds at path. data::get_user and get_group
\* fail for an owner without a passwd or group entry ("?").
TemplateNew(name, entry, data, export_config) ==
    IF entry.is_dir
    THEN Panic("template is not supposed to be created with a directory path")
    ELSE IF ~export_config.user.some /\ entry.uid = "?" THEN Err("no user found")
    ELSE IF ~export_config.group.some /\ entry.gid = "?" THEN Err("no group found")
    ELSE Ok([name |-> name,
             path |-> entry,
             data |-> data,
             export_config |->
                 [dir |-> export_config.dir,
                  user |-> IF export_config.user.some
                           THEN export_config.user ELSE Some(entry.uid),
                  group |-> IF export_config.group.some
                            THEN export_config.group ELSE Some(entry.gid),
                  permissions |-> IF export_config.permissions.some
                                  THEN export_config.permissions
                                  ELSE Some(entry.mode)]])

\* pub fn namespace(&self) -> &str
TemplateNamespace(t) == Split(t.name, "/")[1]

\* pub fn filename(&self) -> &str
TemplateFilename(t) == Split(t.name, "/")[2]

\* pub fn register(&self, handlebars) -> Result<()>
\* Gives the registry after the call.
TemplateRegister(t, reg) ==
    IF ~t.path.ok THEN Err("template cannot be read or parsed")
    ELSE Ok(MapInsert(reg, t.name, t.path.elements))

\* The value handlebars binds to a dotted path in the data: each segment is
\* looked up in turn, and a missing one gives nothing (Null; not strict mode).
RECURSIVE Lookup(_, _)
Lookup(value, segs) ==
    IF segs = <<>> THEN value
    ELSE IF value.kind = "Object" /\ Head(segs) \in DOMAIN value.obj
    THEN Lookup(value.obj[Head(segs)], Tail(segs))
    ELSE Null

\* handlebars.render(&self.name, &self.data): the text, as the sequence of the
\* values bound to the template's variable expressions.
RECURSIVE HandlebarsRender(_, _)
HandlebarsRender(elements, data) ==
    IF elements = <<>> THEN <<>>
    ELSE LET e == Head(elements)
         IN (IF e.kind \in {"Expression", "HTMLExpression"} /\ e.param = "Path"
             THEN <<Lookup(Object(data), Split(e.raw, "."))>>
             ELSE <<>>)
            \o HandlebarsRender(Tail(elements), data)

\* umask::USER_EXEC, GROUP_EXEC, OTHERS_EXEC
USER_EXEC == 64
GROUP_EXEC == 8
OTHERS_EXEC == 1

\* Mode::has, Mode::with for one permission bit
ModeHas(mode, bit) == (mode \div bit) % 2 = 1
ModeWith(mode, bit) == IF ModeHas(mode, bit) THEN mode ELSE mode + bit

\* libc::EPERM, ENOENT, EIO, EROFS
EPERM == 1
ENOENT == 2
EIO == 5
EROFS == 30

\* The errno a failing chown or chmod leaves, in a run of main.
Errnos == {EPERM, EROFS, ENOENT, EIO}

\* fn chown(path, user, group) -> Result<()>, for the errno libc::chown left
\* (0: the call did not return -1)
Chown(errno) ==
    IF errno = 0 THEN Ok("chown")
    ELSE IF errno = EPERM THEN Err("chown")
    ELSE IF errno = EROFS THEN Err("chown")
    ELSE Panic("chown: unexpected errno")

\* A chmod without the arm for ENOENT.
ChmodStrict(errno) ==
    IF errno = 0 THEN Ok("chmod")
    ELSE IF errno = EPERM THEN Err("chmod")
    ELSE IF errno = EROFS THEN Err("chmod")
    ELSE Panic("chmod: unexpected errno")

\* fn chmod(path, mode) -> Result<()>
Chmod(errno) ==
    IF errno = 0 THEN Ok("chmod")
    ELSE IF errno = ENOENT THEN Err("chmod")
    ELSE IF errno = EPERM THEN Err("chmod")
    ELSE IF errno = EROFS THEN Err("chmod")
    ELSE Panic("chmod: unexpected errno")

\* What can go wrong first in one Template::render call: the operation and, for
\* chown and chmod, the errno (the other operations give an io::Error that is
\* returned as it is: errno 0 here). Operations after the first failure do not
\* run.
NoFault == [site |-> "none", errno |-> 0]
Faults ==
    {NoFault}
    \cup { [site |-> x, errno |-> 0] :
             x \in {"render", "create_dir", "create", "write"} }
    \cup { [site |-> x, errno |-> e] :
             x \in {"dir_chown", "dir_chmod", "chown", "chmod"}, e \in Errnos }

ErrnoAt(fault, site) == IF fault.site = site THEN fault.errno ELSE 0

\* The export directory and the files in it.
OutAbsent == [kind |-> "absent", user |-> "", group |-> "", mode |-> 0, files |-> EmptyMap]

\* An export directory that is there before the run, of root:root with mode
\* 0o700, holding files.
OutDir(files) ==
    [kind |-> "dir", user |-> "root", group |-> "root", mode |-> 448, files |-> files]

\* The export path is there and is not a directory.
OutNotDir == [kind |-> "file", user |-> "root", group |-> "root", mode |-> 420,
              files |-> EmptyMap]

\* A file that is in the export directory before the run; its content is a
\* text of an earlier render (a string value).
OldFile ==
    [content |-> <<String>>, written |-> TRUE, user |-> "root", group |-> "root",
     mode |-> 420, from |-> <<>>]

\* What File::create leaves at a path: an empty file of the process's user.
\* from names the template whose render created or truncated it last.
Created ==
    [content |-> <<>>, written |-> FALSE, user |-> "", group |-> "", mode |-> 0,
     from |-> <<>>]

\* A directory mode that is the configured mode as it is.
DirModeAsConfigured(mode) == mode

\* let dir_mode = { ... } (lines 80-92): mode with the three execute bits.
DirMode(mode) ==
    ModeWith(ModeWith(ModeWith(mode, USER_EXEC), GROUP_EXEC), OTHERS_EXEC)

\* An output step that writes the text right after creating the file, before
\* chown and chmod.
RenderFileWriteFirst(t, text, out, fault) ==
    LET user == t.export_config.user.val
        group == t.export_config.group.val
        mode == t.export_config.permissions.val
        path_file == Split(t.name, "/")[2]
        put(f) == [out EXCEPT !.files = MapInsert(out.files, path_file, f)]
        f0 == IF path_file \in DOMAIN out.files
              THEN [out.files[path_file] EXCEPT !.content = text, !.written = TRUE,
                                                !.from = t.name]
              ELSE [content |-> text, written |-> TRUE, user |-> "", group |-> "",
                    mode |-> 0, from |-> t.name]
        f1 == [f0 EXCEPT !.user = user, !.group = group]
        f2 == [f1 EXCEPT !.mode = mode]
    IN IF fault.site = "create" THEN [res |-> Err("create"), out |-> out]
       ELSE IF fault.site = "write" THEN [res |-> Err("write"), out |-> out]
       ELSE IF Chown(ErrnoAt(fault, "chown")).status # "Ok"
       THEN [res |-> Chown(ErrnoAt(fault, "chown")), out |-> put(f0)]
       ELSE IF Chmod(ErrnoAt(fault, "chmod")).status # "Ok"
       THEN [res |-> Chmod(ErrnoAt(fault, "chmod")), out |-> put(f1)]
       ELSE [res |-> Ok("rendered"), out |-> put(f2)]

\* The second half of Template::render: the output file (lines 98-105).
RenderFile(t, text, out, fault) ==
    LET user == t.export_config.user.val
        group == t.export_config.group.val
        mode == t.export_config.permissions.val
        path_file == TemplateFilename(t)
        put(f) == [out EXCEPT !.files = MapInsert(out.files, path_file, f)]
        f0 == IF path_file \in DOMAIN out.files
              THEN [out.files[path_file] EXCEPT !.content = <<>>, !.written = FALSE,
                                                !.from = t.name]
              ELSE [Created EXCEPT !.from = t.name]
        f1 == [f0 EXCEPT !.user = user, !.group = group]
        f2 == [f1 EXCEPT !.mode = mode]
        f3 == [f2 EXCEPT !.content = text, !.written = TRUE]
    IN IF fault.site = "create" THEN [res |-> Err("create"), out |-> out]
       ELSE IF Chown(ErrnoAt(fault, "chown")).status # "Ok"
       THEN [res |-> Chown(ErrnoAt(fault, "chown")), out |-> put(f0)]
       ELSE IF Chmod(ErrnoAt(fault, "chmod")).status # "Ok"
       THEN [res |-> Chmod(ErrnoAt(fault, "chmod")), out |-> put(f1)]
       ELSE IF fault.site = "write" THEN [res |-> Err("write"), out |-> put(f2)]
       ELSE [res |-> Ok("rendered"), out |-> put(f3)]

\* pub fn render(&self, handlebars) -> Result<()>
\* Gives the result and the export directory after the call.
TemplateRender(t, reg, out, fault) ==
    IF fault.site = "render" \/ t.name \notin DOMAIN reg
    THEN [res |-> Err("render"), out |-> out]
    ELSE LET text == HandlebarsRender(reg[t.name], t.data)
             user == t.export_config.user.val
             group == t.export_config.group.val
             mode == t.export_config.permissions.val
             dir_mode == DirMode(mode)
             d0 == [OutAbsent EXCEPT !.kind = "dir"]
             d1 == [d0 EXCEPT !.user = user, !.group = group]
             d2 == [d1 EXCEPT !.mode = dir_mode]
         IN IF out.kind = "absent"
            THEN IF fault.site = "create_dir" THEN [res |-> Err("create_dir"), out |-> out]
                 ELSE IF Chown(ErrnoAt(fault, "dir_chown")).status # "Ok"
                 THEN [res |-> Chown(ErrnoAt(fault, "dir_chown")), out |-> d0]
                 ELSE IF Chmod(ErrnoAt(fault, "dir_chmod")).status # "Ok"
                 THEN [res |-> Chmod(ErrnoAt(fault, "dir_chmod")), out |-> d1]
                 ELSE RenderFile(t, text, d2, fault)
            ELSE IF out.kind # "dir"
            THEN [res |-> Err("export dir already exists"), out |-> out]
            ELSE RenderFile(t, text, out, fault)

(***************************************************************************)
(* namespace.rs: Namespace::templates                                      *)
(***************************************************************************)

\* A borrow through which the callee's writes reach the borrowed value.
BorrowedWrittenThrough(borrowed, owned) == owned

\* The value behind Cow::Borrowed(&self.export_config) (line 121) after
\* Template::new has written to it through to_mut(): to_mut clones a borrowed
\* value and writes to the clone (owned), so the borrowed value stays as it was.
BorrowedAfterToMut(borrowed, owned) == borrowed

\* The namespace after Template::new has built a template from its export_config.
NamespaceAfterNew(ns, template) ==
    [ns EXCEPT !.export_config =
                   BorrowedAfterToMut(ns.export_config, template.export_config)]

\* The loop of Namespace::templates over the entries that are left, vec being
\* the templates pushed so far.
RECURSIVE TemplatesLoop(_, _, _)
TemplatesLoop(ns, entries, vec) ==
    IF entries = <<>> THEN Ok(vec)
    ELSE LET file == Head(entries)
         IN IF file.file_name = sEriConf
            THEN TemplatesLoop(ns, Tail(entries), vec)
            ELSE LET r == TemplateNew(ns.name \o <<"/">> \o file.file_name, file,
                                      ns.data, ns.export_config)
                 IN IF r.status # "Ok" THEN r
                    ELSE TemplatesLoop(NamespaceAfterNew(ns, r.val), Tail(entries),
                                       Append(vec, r.val))

\* pub fn templates(&self) -> Result<Vec<Template>>
NamespaceTemplates(ns, dirs) ==
    IF ~(ns.base_path \in DOMAIN dirs /\ dirs[ns.base_path].is_dir)
    THEN Err("read_dir")
    ELSE TemplatesLoop(ns, ReadDir(dirs[ns.base_path]), <<>>)

(***************************************************************************)
(* template.rs: Template::parameter_list; namespace.rs: gen_data_file      *)
(***************************************************************************)

\* The elements parameter_list pushes, in order.
RECURSIVE ParameterLoop(_, _)
ParameterLoop(elements, prefix) ==
    IF elements = <<>> THEN <<>>
    ELSE LET e == Head(elements)
         IN (IF /\ e.kind = "Expression"
                /\ e.param = "Path"
                /\ e.relative
                /\ StartsWith(e.raw, prefix)
             THEN <<e.raw>> ELSE <<>>)
            \o ParameterLoop(Tail(elements), prefix)

\* pub fn parameter_list(&self, handlebars) -> Result<Vec<String>>
ParameterList(t, reg) ==
    IF t.name \notin DOMAIN reg THEN Err("could not find template")
    ELSE Ok(ParameterLoop(reg[t.name], TemplateNamespace(t) \o <<".">>))

\* What gen_data_file inserts for a parameter: split('.'), remove(0), join(".").
StripFirst(param) == Join(Tail(Split(param, ".")), ".")

RECURSIVE SeqToSet(_)
SeqToSet(q) == IF q = <<>> THEN {} ELSE {Head(q)} \cup SeqToSet(Tail(q))

\* The BTreeSet<String> gen_data_file builds from the templates that are left.
RECURSIVE ParamsLoop(_, _, _)
ParamsLoop(ts, reg, params) ==
    IF ts = <<>> THEN Ok(params)
    ELSE LET r == ParameterList(Head(ts), reg)
         IN IF r.status # "Ok" THEN r
            ELSE ParamsLoop(Tail(ts), reg,
                            params \cup { StripFirst(x) : x \in SeqToSet(r.val) })

\* "# Data file generated by eri ..." and the empty line after it.
sHeader == <<"#">>

\* writeln!(file, "{} =", param)
ParamLine(param) == param \o <<" ", "=">>

RECURSIVE ParamLines(_)
ParamLines(q) == IF q = <<>> THEN <<>> ELSE <<ParamLine(Head(q))>> \o ParamLines(Tail(q))

\* The error gen_data_file returns when the copy fails (line 165).
sBackupFailed == "Failed to make a backup, not proceeding"

\* A copy that reports success and leaves no backup file.
BackupCopyLost(dir) == dir

\* std::fs::copy(&data_file_path, data_file_backup_path): a new file
\* eri.conf.bk_<now> with the content of eri.conf.
BackupCopy(dir) == [dir EXCEPT !.backups = Append(dir.backups, dir.conf)]

\* What can go wrong first in gen_data_file after the parameters are known.
GenFaults ==
    {NoFault} \cup { [site |-> x, errno |-> 0] : x \in {"copy", "create", "write"} }

\* pub fn gen_data_file(&self, handlebars) -> Result<()>, from line 136 on.
\* ts are the registered templates; gives the result and the namespace
\* directory after the call.
GenDataFile(ns, ts, reg, dir, fault) ==
    LET p == ParamsLoop(ts, reg, {})
    IN IF p.status # "Ok" THEN [res |-> p, dir |-> dir]
       ELSE IF p.val = {} THEN [res |-> Ok("nothing to write"), dir |-> dir]
       ELSE LET exists == dir.conf.kind # "absent"
                backed == IF exists THEN BackupCopy(dir) ELSE dir
                empty == [backed EXCEPT !.conf = ConfGenerated(<<>>)]
                lines == <<sHeader>> \o ParamLines(SortedSeq(p.val))
            IN IF exists /\ fault.site = "copy"
               THEN [res |-> Err(sBackupFailed), dir |-> dir]
               ELSE IF fault.site = "create"
               THEN [res |-> Err("could not create data file"), dir |-> backed]
               ELSE IF fault.site = "write"
               THEN [res |-> Err("write"), dir |-> empty]
               ELSE [res |-> Ok("generated"),
                     dir |-> [backed EXCEPT !.conf = ConfGenerated(lines)]]

(***************************************************************************)
(* main.rs: main, with config.rs: EriConfig::open and EriConfig::namespaces *)
(***************************************************************************)

MaxTemplates == 2

sAK == <<"a", ".", "k">>
sBK == <<"b", ".", "k">>

\* The i-th file name of a listing: "t", "tt", ...
FileName(i) == [j \in 1..i |-> "t"]

\* Template sources: one that parses and refers to a.k and b.k, and one that
\* cannot be read or parsed.
Sources ==
    { [ok |-> TRUE, elements |-> <<Var(sAK), Var(sBK)>>],
      [ok |-> FALSE, elements |-> <<>>] }

\* A directory entry that is a sub-directory.
SubDir(file_name) ==
    [file_name |-> file_name, is_dir |-> TRUE, ok |-> FALSE, elements |-> <<>>,
     uid |-> "alice", gid |-> "staff", mode |-> 493]

\* Up to MaxTemplates template files owned by alice:staff with mode 0o600.
FileListings ==
    UNION { { [i \in 1..n |-> File(FileName(i), q[i].ok, q[i].elements,
                                   "alice", "staff", 384)] :
              q \in [1..n -> Sources] } : n \in 0..MaxTemplates }

\* The listings of a namespace directory: template files, and possibly one more
\* entry that Template::new does not accept, a sub-directory or a file whose
\* owner has no passwd entry. (Namespace::templates stops at the first such
\* entry, so the entries after it play no part.)
Listings ==
    { l \o x : l \in FileListings,
               x \in {<<>>, <<SubDir(sU)>>,
                      <<File(sU, TRUE, <<>>, "?", "staff", 384)>>} }

\* What <cwd>/<name> can be: no directory, or a directory with or without an
\* eri.conf (empty, or overriding k) and a listing.
Worlds ==
    {NoDir} \cup
    { Dir(c, l) : c \in {ConfAbsent, ConfFile(EmptyMap), ConfFile(sK :> Number(2))},
                  l \in Listings }

Init ==
    /\ pc = "open"
    /\ cmd \in {"render", "gendata"}
    /\ \E perm \in {Null, Number(600), String},
          va \in {Object(sK :> Number(1)), Number(5)} :
           arg = [permissions |-> perm,
                  namespace |-> (sA :> va) @@ (sB :> Object(sK :> Number(1)))]
    /\ \E wa \in Worlds, wb \in Worlds \cup {Dir(ConfBad, <<>>)} :
           fs = [dirs |-> (sA :> wa) @@ (sB :> wb), out |-> OutAbsent]
    /\ config = None
    /\ namespaces = <<>>
    /\ nsIdx = 0
    /\ phase = "none"
    /\ templates = <<>>
    /\ tIdx = 0
    /\ registry = EmptyMap
    /\ errors = <<>>
    /\ exitCode = -1
    /\ ret = None

\* std::process::exit(code) after log::error!
Exit(code, error) ==
    /\ pc' = "exit"
    /\ exitCode' = code
    /\ errors' = Append(errors, error)

\* A panic unwinds main: the process ends with status 101.
Abort ==
    /\ pc' = "panic"
    /\ exitCode' = 101

\* EriConfig::open and main's match on it (main.rs 73-79): the export table is
\* built, map_mode mapping permissions, and fill_defaults sets dir.
Open ==
    /\ pc = "open"
    /\ LET mode == MapMode(arg.permissions)
       IN IF mode.status = "Ok"
          THEN /\ config' = [export |-> [dir |-> Some(sOut), user |-> None,
                                         group |-> None, permissions |-> mode.val],
                             namespace |-> arg.namespace]
               /\ pc' = "namespaces"
               /\ UNCHANGED <<exitCode, errors>>
          ELSE /\ Exit(1, [op |-> "open", name |-> <<>>, template |-> <<>>,
                         cause |-> mode.val])
               /\ UNCHANGED config
    /\ UNCHANGED <<cmd, fs, namespaces, nsIdx, phase, templates, tIdx, registry,
                   arg, ret>>

\* The names EriConfig::namespaces iterates, in the order of the Map.
NamespaceNames == SortedSeq(DOMAIN config.namespace)

\* One turn of the loop of EriConfig::namespaces (config.rs 253-259): the next
\* name is resolved against the configuration's own map, and pushed.
NamespacesPush ==
    /\ pc = "namespaces"
    /\ Len(namespaces) < Len(NamespaceNames)
    /\ LET r == NamespaceNew(NamespaceNames[Len(namespaces) + 1], config.export,
                             config.namespace, fs.dirs)
       IN /\ r.status = "Ok"
          /\ namespaces' = Append(namespaces, r.val)
    /\ UNCHANGED <<pc, cmd, config, fs, nsIdx, phase, templates, tIdx, registry,
                   errors, exitCode, arg, ret>>

\* Namespace::new returns Err: `?` returns it from namespaces(), and main logs
\* it and exits with status 1 (main.rs 83-86).
NamespacesErr ==
    /\ pc = "namespaces"
    /\ Len(namespaces) < Len(NamespaceNames)
    /\ LET name == NamespaceNames[Len(namespaces) + 1]
           r == NamespaceNew(name, config.export, config.namespace, fs.dirs)
       IN /\ r.status = "Err"
          /\ Exit(1, [op |-> "namespaces", name |-> name, template |-> <<>>,
                      cause |-> r.val])
    /\ UNCHANGED <<cmd, config, fs, namespaces, nsIdx, phase, templates, tIdx,
                   registry, arg, ret>>

\* Namespace::new panics (namespace.rs 76).
NamespacesPanic ==
    /\ pc = "namespaces"
    /\ Len(namespaces) < Len(NamespaceNames)
    /\ NamespaceNew(NamespaceNames[Len(namespaces) + 1], config.export,
                    config.namespace, fs.dirs).status = "Panic"
    /\ Abort
    /\ UNCHANGED <<cmd, config, fs, namespaces, nsIdx, phase, templates, tIdx,
                   registry, errors, arg, ret>>

\* namespaces() returns Ok(namespaces) and main enters the subcommand's loop.
NamespacesOk ==
    /\ pc = "namespaces"
    /\ Len(namespaces) = Len(NamespaceNames)
    /\ pc' = "run"
    /\ nsIdx' = 1
    /\ phase' = "templates"
    /\ UNCHANGED <<cmd, config, fs, namespaces, templates, tIdx, registry,
                   errors, exitCode, arg, ret>>

\* The loop of main moves to the next namespace.
NextNamespace ==
    /\ nsIdx' = nsIdx + 1
    /\ phase' = "templates"
    /\ templates' = <<>>
    /\ tIdx' = 0

\* Namespace::render or gen_data_file returned Err(e): main logs the namespace
\* and e, and goes on (main.rs 94-96, 112-118). template names the template the
\* error came from, if one.
Failed(template, cause) ==
    /\ errors' = Append(errors, [op |-> cmd, name |-> namespaces[nsIdx].name,
                                 template |-> template, cause |-> cause])
    /\ NextNamespace

Running == pc = "run" /\ nsIdx <= Len(namespaces)

\* let templates = self.templates()?; (namespace.rs 131, 202)
TemplatesOk ==
    /\ Running /\ phase = "templates"
    /\ LET r == NamespaceTemplates(namespaces[nsIdx], fs.dirs)
       IN /\ r.status = "Ok"
          /\ templates' = r.val
    /\ phase' = "register"
    /\ tIdx' = 1
    /\ UNCHANGED <<pc, cmd, config, fs, namespaces, nsIdx, registry, errors,
                   exitCode, arg, ret>>

TemplatesErr ==
    /\ Running /\ phase = "templates"
    /\ LET r == NamespaceTemplates(namespaces[nsIdx], fs.dirs)
       IN /\ r.status = "Err"
          /\ Failed(<<>>, r.val)
    /\ UNCHANGED <<pc, cmd, config, fs, namespaces, registry, exitCode, arg, ret>>

TemplatesPanic ==
    /\ Running /\ phase = "templates"
    /\ NamespaceTemplates(namespaces[nsIdx], fs.dirs).status = "Panic"
    /\ Abort
    /\ UNCHANGED <<cmd, config, fs, namespaces, nsIdx, phase, templates, tIdx,
                   registry, errors, arg, ret>>

\* One turn of `for template in &templates { template.register(handlebars)?; }`
RegisterOk ==
    /\ Running /\ phase = "register" /\ tIdx <= Len(templates)
    /\ LET r == TemplateRegister(templates[tIdx], registry)
       IN /\ r.status = "Ok"
          /\ registry' = r.val
    /\ tIdx' = tIdx + 1
    /\ UNCHANGED <<pc, cmd, config, fs, namespaces, nsIdx, phase, templates,
                   errors, exitCode, arg, ret>>

\* register fails: `?` returns the error from the namespace's render or
\* gen_data_file; the templates after it are not registered and none is rendered.
RegisterErr ==
    /\ Running /\ phase = "register" /\ tIdx <= Len(templates)
    /\ LET r == TemplateRegister(templates[tIdx], registry)
       IN /\ r.status = "Err"
          /\ Failed(templates[tIdx].name, r.val)
    /\ UNCHANGED <<pc, cmd, config, fs, namespaces, registry, exitCode, arg, ret>>

\* The register loop is over: render goes on to its second loop, gen_data_file
\* to the parameters.
RegisterDone ==
    /\ Running /\ phase = "register" /\ tIdx > Len(templates)
    /\ phase' = IF cmd = "render" THEN "render" ELSE "generate"
    /\ tIdx' = 1
    /\ UNCHANGED <<pc, cmd, config, fs, namespaces, nsIdx, templates, registry,
                   errors, exitCode, arg, ret>>

\* One turn of `for template in &templates { template.render(handlebars)?; }`
RenderOk ==
    /\ Running /\ phase = "render" /\ tIdx <= Len(templates)
    /\ \E fault \in Faults :
         LET r == TemplateRender(templates[tIdx], registry, fs.out, fault)
         IN /\ r.res.status = "Ok"
            /\ fs' = [fs EXCEPT !.out = r.out]
    /\ tIdx' = tIdx + 1
    /\ UNCHANGED <<pc, cmd, config, namespaces, nsIdx, phase, templates, registry,
                   errors, exitCode, arg, ret>>

\* Template::render fails: `?` returns the error from Namespace::render; the
\* templates after it are not rendered.
RenderErr ==
    /\ Running /\ phase = "render" /\ tIdx <= Len(templates)
    /\ \E fault \in Faults :
         LET r == TemplateRender(templates[tIdx], registry, fs.out, fault)
         IN /\ r.res.status = "Err"
            /\ fs' = [fs EXCEPT !.out = r.out]
            /\ Failed(templates[tIdx].name, r.res.val)
    /\ UNCHANGED <<pc, cmd, config, namespaces, registry, exitCode, arg, ret>>

\* chown or chmod panics on an unexpected errno.
RenderPanic ==
    /\ Running /\ phase = "render" /\ tIdx <= Len(templates)
    /\ \E fault \in Faults :
         LET r == TemplateRender(templates[tIdx], registry, fs.out, fault)
         IN /\ r.res.status = "Panic"
            /\ fs' = [fs EXCEPT !.out = r.out]
    /\ Abort
    /\ UNCHANGED <<cmd, config, namespaces, nsIdx, phase, templates, tIdx,
                   registry, errors, arg, ret>>

\* Namespace::render returns Ok(()).
RenderDone ==
    /\ Running /\ phase = "render" /\ tIdx > Len(templates)
    /\ NextNamespace
    /\ UNCHANGED <<pc, cmd, config, fs, namespaces, registry, errors, exitCode,
                   arg, ret>>

\* The rest of gen_data_file (namespace.rs 136-196), returning Ok(()).
GenerateOk ==
    /\ Running /\ phase = "generate"
    /\ \E fault \in GenFaults :
         LET ns == namespaces[nsIdx]
             r == GenDataFile(ns, templates, registry, fs.dirs[ns.base_path], fault)
         IN /\ r.res.status = "Ok"
            /\ fs' = [fs EXCEPT !.dirs[ns.base_path] = r.dir]
    /\ NextNamespace
    /\ UNCHANGED <<pc, cmd, config, namespaces, registry, errors, exitCode, arg, ret>>

GenerateErr ==
    /\ Running /\ phase = "generate"
    /\ \E fault \in GenFaults :
         LET ns == namespaces[nsIdx]
             r == GenDataFile(ns, templates, registry, fs.dirs[ns.base_path], fault)
         IN /\ r.res.status = "Err"
            /\ fs' = [fs EXCEPT !.dirs[ns.base_path] = r.dir]
            /\ Failed(<<>>, r.res.val)
    /\ UNCHANGED <<pc, cmd, config, namespaces, registry, exitCode, arg, ret>>

\* The subcommand's loop is over and main returns: the process ends with status 0.
Finish ==
    /\ pc = "run" /\ nsIdx > Len(namespaces)
    /\ pc' = "done"
    /\ exitCode' = 0
    /\ UNCHANGED <<cmd, config, fs, namespaces, nsIdx, phase, templates, tIdx,
                   registry, errors, arg, ret>>

Next ==
    \/ Open
    \/ NamespacesPush \/ NamespacesErr \/ NamespacesPanic \/ NamespacesOk
    \/ TemplatesOk \/ TemplatesErr \/ TemplatesPanic
    \/ RegisterOk \/ RegisterErr \/ RegisterDone
    \/ RenderOk \/ RenderErr \/ RenderPanic \/ RenderDone
    \/ GenerateOk \/ GenerateErr
    \/ Finish

Spec == Init /\ [][Next]_vars

(***************************************************************************)
(* Properties of a run of main                                             *)
(***************************************************************************)

\* The process has ended.
Ended == pc \in {"done", "exit", "panic"}

\* The override file of namespace name, when it supplies at least one key.
HasOverride(name) ==
    /\ fs.dirs[name].is_dir
    /\ fs.dirs[name].conf.kind = "file"
    /\ DOMAIN fs.dirs[name].conf.items # {}

\* The index in namespaces of the namespace called name, 0 if it is not there.
IndexOf(name) ==
    IF \E i \in 1..Len(namespaces) : namespaces[i].name = name
    THEN CHOOSE i \in 1..Len(namespaces) : namespaces[i].name = name
    ELSE 0

\* C1: when namespace a's directory is missing and b's exists, a render run
\* still resolves b and takes it through rendering, and reports a's failure:
\* a's failure does not end the run before b is processed.
C1_FailureIsolation ==
    (/\ Ended
     /\ cmd = "render"
     /\ MapMode(arg.permissions).status = "Ok"
     /\ ~fs.dirs[sA].is_dir
     /\ fs.dirs[sB].is_dir /\ fs.dirs[sB].conf.kind # "bad")
    => /\ \E i \in 1..Len(errors) : errors[i].name = sA
       /\ IndexOf(sB) # 0
       /\ nsIdx > IndexOf(sB)

\* C2: the final status of a render or gendata run is non-zero whenever a
\* namespace or template failed during the run; it is zero only when no
\* failure was logged.
C2_ExitStatusReflectsFailures ==
    (Ended /\ exitCode = 0) => errors = <<>>

\* The entries of a namespace directory that Namespace::templates turns into
\* templates, when it accepts every entry.
Discoverable(name) ==
    /\ fs.dirs[name].is_dir
    /\ \A i \in 1..Len(fs.dirs[name].entries) :
           LET e == fs.dirs[name].entries[i]
           IN ~e.is_dir /\ e.uid # "?" /\ e.gid # "?"

\* C3: within a namespace's render, a template that cannot be registered or
\* whose render fails does not keep its siblings from being rendered: when the
\* run is over, every other template of that namespace whose source is valid
\* has its output file written.
C3_SiblingsStillRendered ==
    (pc = "done" /\ cmd = "render") =>
        \A i \in 1..Len(errors) :
            (errors[i].template # <<>> /\ Discoverable(errors[i].name)) =>
                \A j \in 1..Len(fs.dirs[errors[i].name].entries) :
                    LET e == fs.dirs[errors[i].name].entries[j]
                        name == errors[i].name \o <<"/">> \o e.file_name
                    IN (e.ok /\ name # errors[i].template) =>
                           \E f \in DOMAIN fs.out.files :
                               /\ fs.out.files[f].from = name
                               /\ fs.out.files[f].written

\* C4: when namespace a has a non-empty override file and the root data's entry
\* for a is not an object, resolving a ends in an error that is logged for a;
\* the run does not halt there (no panic).
C4_TypeMismatchRecoverable ==
    (/\ pc \notin {"open", "namespaces"}
     /\ MapMode(arg.permissions).status = "Ok"
     /\ HasOverride(sA)
     /\ arg.namespace[sA].kind # "Object")
    => /\ pc # "panic"
       /\ \E i \in 1..Len(errors) : errors[i].name = sA

\* C5: once all namespaces are resolved, the merged override of a namespace is
\* in the data every namespace's templates are bound to: a template of another
\* namespace that refers to <namespace>.<key>, for a key of that namespace's
\* override file, is bound to the override's value.
C5_OverrideSharedAcrossNamespaces ==
    (pc = "run" /\ nsIdx <= Len(namespaces)) =>
        \A j \in 1..Len(templates) :
            \A i \in 1..Len(namespaces) :
                (i # nsIdx /\ HasOverride(namespaces[i].name)) =>
                    \A k \in DOMAIN fs.dirs[namespaces[i].name].conf.items :
                        Lookup(Object(templates[j].data), <<namespaces[i].name, k>>)
                            = fs.dirs[namespaces[i].name].conf.items[k]

(***************************************************************************)
(* Function-level specification of Namespace::new's override merge         *)
(***************************************************************************)

\* Values a key of a namespace's object can hold: numbers and nested objects.
MaxNum == 2
NestedObjects ==
    { Object((sX :> Number(1)) @@ (sY :> Number(2))),
      Object(sZ :> Number(3)),
      Object(sX :> Number(2)) }
InnerValues == { Number(n) : n \in 1..MaxNum } \cup NestedObjects
MergeKeys == {sA, sK}
MergeMaps == UNION { [S -> InnerValues] : S \in SUBSET MergeKeys }

InitMerge ==
    /\ pc = "merge"
    /\ \E base \in MergeMaps, over \in MergeMaps :
           arg = [data |-> (sA :> Object(base)),
                  dirs |-> (sA :> Dir(ConfFile(over), <<>>))]
    /\ ret = None
    /\ cmd = "none" /\ config = None /\ fs = None /\ namespaces = <<>>
    /\ nsIdx = 0 /\ phase = "none" /\ templates = <<>> /\ tIdx = 0
    /\ registry = EmptyMap /\ errors = <<>> /\ exitCode = -1

ApplyNamespaceNew ==
    /\ pc = "merge"
    /\ ret' = NamespaceNew(sA, None, arg.data, arg.dirs)
    /\ pc' = "merged"
    /\ UNCHANGED <<cmd, config, fs, namespaces, nsIdx, phase, templates, tIdx,
                   registry, errors, exitCode, arg>>

NextMerge == ApplyNamespaceNew

SpecMerge == InitMerge /\ [][NextMerge]_vars

\* C6: the override merge is a shallow union. For a base object and a non-empty
\* override, the merged object's key set is the union of both key sets, every
\* override key maps to exactly the override's value (a nested base object under
\* it is replaced whole), and every base-only key keeps the base's value.
C6_ShallowUnion ==
    (pc = "merged" /\ DOMAIN arg.dirs[sA].conf.items # {}) =>
        LET base == arg.data[sA].obj
            over == arg.dirs[sA].conf.items
        IN /\ ret.status = "Ok"
           /\ ret.val.data[sA].kind = "Object"
           /\ DOMAIN ret.val.data[sA].obj = DOMAIN base \cup DOMAIN over
           /\ \A k \in DOMAIN over : ret.val.data[sA].obj[k] = over[k]
           /\ \A k \in DOMAIN base \ DOMAIN over : ret.val.data[sA].obj[k] = base[k]

\* The specification's example: base {a: {x:1, y:2}, k: 1}, override {a: {z:3}}
\* merges to {a: {z:3}, k: 1}.
C6_Witness ==
    /\ pc = "merged"
    /\ arg.data[sA].obj =
           (sA :> Object((sX :> Number(1)) @@ (sY :> Number(2)))) @@ (sK :> Number(1))
    /\ arg.dirs[sA].conf.items = (sA :> Object(sZ :> Number(3)))
    /\ ret.status = "Ok"
    /\ ret.val.data[sA].obj = (sA :> Object(sZ :> Number(3))) @@ (sK :> Number(1))

(***************************************************************************)
(* Function-level specification of map_mode                                *)
(***************************************************************************)

MaxPermissions == 1000

ModeInputs ==
    {Null, Bool, String} \cup { Number(n) : n \in (-1)..MaxPermissions }

InitMode ==
    /\ pc = "mode"
    /\ arg \in ModeInputs
    /\ ret = None
    /\ cmd = "none" /\ config = None /\ fs = None /\ namespaces = <<>>
    /\ nsIdx = 0 /\ phase = "none" /\ templates = <<>> /\ tIdx = 0
    /\ registry = EmptyMap /\ errors = <<>> /\ exitCode = -1

ApplyMapMode ==
    /\ pc = "mode"
    /\ ret' = MapMode(arg)
    /\ pc' = "mapped"
    /\ UNCHANGED <<cmd, config, fs, namespaces, nsIdx, phase, templates, tIdx,
                   registry, errors, exitCode, arg>>

NextMode == ApplyMapMode

SpecMode == InitMode /\ [][NextMode]_vars

\* Whether a decimal digit of the non-negative integer n is greater than 7.
RECURSIVE HasDigitAbove7(_)
HasDigitAbove7(n) ==
    IF n % 10 > 7 THEN TRUE
    ELSE IF n < 10 THEN FALSE
    ELSE HasDigitAbove7(n \div 10)

\* C7: permission-mode parsing rejects every integer with a decimal digit
\* greater than 7 and every non-integer input: no mode is produced for it.
C7_RejectsBadDigits ==
    (/\ pc = "mapped"
     /\ \/ arg.kind # "Number"
        \/ arg.num >= 0 /\ HasDigitAbove7(arg.num))
    => ~(ret.status = "Ok" /\ ret.val.some)

\* C8: for an integer whose digits o (hundreds), g (tens), t (units) are each
\* in 0..7, permission-mode parsing yields the mode o*64 + g*8 + t.
C8_PacksDigits ==
    \A o \in 0..7, g \in 0..7, t \in 0..7 :
        (pc = "mapped" /\ arg = Number(100 * o + 10 * g + t))
        => ret = Ok(Some(o * 64 + g * 8 + t))

\* 750 is parsed to owner 7, group 5, other 0.
C8_Witness ==
    /\ pc = "mapped"
    /\ arg = Number(750)
    /\ ret = Ok(Some(7 * 64 + 5 * 8 + 0))

(***************************************************************************)
(* Function-level specification of parameter_list and gen_data_file        *)
(***************************************************************************)

MaxElements == 2

sADotB == <<"a", ".", "b">>

\* Namespace names: plain ones, one with a '/' and one with a '.'.
GenNames == {sA, sB, sAB, sADotB}

\* Dotted paths a template can refer to.
RawPaths ==
    { sAK, sBK,
      <<"a", ".", "j">>,
      <<"a", ".", "b", ".", "k">>,
      <<"a", "/", "b", ".", "k">>,
      <<"a", "b", ".", "k">>,
      <<"a">> }

\* Elements of a parsed template: variable expressions, and elements
\* parameter_list passes over ({{{a.k}}}, {{"a.k"}}, {{@a.k}}, raw text).
GenElements ==
    { Var(p) : p \in RawPaths } \cup
    { Element("HTMLExpression", "Path", TRUE, sAK),
      Element("Expression", "Literal", FALSE, sAK),
      Element("Expression", "Path", FALSE, sAK),
      Element("RawString", "None", FALSE, sAK) }

\* The first template has up to MaxElements elements, the second one variable
\* expression or none.
GenListings ==
    { <<File(sT, TRUE, q, "alice", "staff", 384), File(sU, TRUE, r, "alice", "staff", 384)>> :
        q \in UNION { [1..n -> GenElements] : n \in 0..MaxElements },
        r \in {<<>>} \cup { <<Var(p)>> : p \in RawPaths } }

GenExport ==
    [dir |-> Some(sOut), user |-> None, group |-> None, permissions |-> None]

InitGen ==
    /\ pc = "gen"
    /\ \E name \in GenNames, l \in GenListings, c \in {ConfAbsent, ConfFile(EmptyMap)} :
           arg = [name |-> name, dirs |-> (name :> Dir(c, l))]
    /\ ret = None
    /\ cmd = "gendata" /\ config = None /\ fs = None /\ namespaces = <<>>
    /\ nsIdx = 0 /\ phase = "none" /\ templates = <<>> /\ tIdx = 0
    /\ registry = EmptyMap /\ errors = <<>> /\ exitCode = -1

\* The registry after the first loop of gen_data_file (namespace.rs 132-134).
RECURSIVE RegisterAll(_, _)
RegisterAll(ts, reg) ==
    IF ts = <<>> THEN Ok(reg)
    ELSE LET r == TemplateRegister(Head(ts), reg)
         IN IF r.status # "Ok" THEN r ELSE RegisterAll(Tail(ts), r.val)

\* Namespace::new, then gen_data_file on the namespace: templates(), register,
\* parameter_list of every template, and the file.
ApplyGenDataFile ==
    /\ pc = "gen"
    /\ LET ns == NamespaceNew(arg.name, GenExport, EmptyMap, arg.dirs).val
           ts == NamespaceTemplates(ns, arg.dirs).val
           reg == RegisterAll(ts, EmptyMap).val
           gen == GenDataFile(ns, ts, reg, arg.dirs[arg.name], NoFault)
       IN ret' = [templates |-> ts,
                  lists |-> [i \in 1..Len(ts) |-> ParameterList(ts[i], reg)],
                  res |-> gen.res,
                  dir |-> gen.dir]
    /\ pc' = "generated"
    /\ UNCHANGED <<cmd, config, fs, namespaces, nsIdx, phase, templates, tIdx,
                   registry, errors, exitCode, arg>>

NextGen == ApplyGenDataFile

SpecGen == InitGen /\ [][NextGen]_vars

\* A top-level relative variable reference of a template rooted at namespace n.
RootedAt(e, n) ==
    /\ e.kind = "Expression" /\ e.param = "Path" /\ e.relative
    /\ StartsWith(e.raw, n \o <<".">>)

\* C9: parameter extraction for a template of namespace N returns only paths
\* that begin with "N.", and every top-level relative variable reference
\* rooted at N is among them.
C9_OnlyOwnNamespace ==
    pc = "generated" =>
        \A i \in 1..Len(ret.templates) :
            /\ ret.lists[i].status = "Ok"
            /\ SeqToSet(ret.lists[i].val) =
                   { e.raw : e \in { x \in SeqToSet(ret.templates[i].path.elements) :
                                       RootedAt(x, arg.name) } }

\* The paths harvested from all templates of the namespace.
Harvested ==
    UNION { SeqToSet(ret.lists[i].val) : i \in 1..Len(ret.templates) }

\* A path with the prefix "<n>." taken off.
StripNamespace(path, n) == SubSeq(path, Len(n) + 2, Len(path))

\* C10: the file gendata writes lists, after the header, one "<path> =" line
\* per distinct harvested parameter, <path> being the harvested path with the
\* namespace prefix stripped, without duplicates and in ascending order.
C10_SkeletonLines ==
    (pc = "generated" /\ ret.dir.conf.kind = "generated") =>
        LET lines == ret.dir.conf.lines
        IN /\ lines[1] = sHeader
           /\ { lines[i] : i \in 2..Len(lines) } =
                  { ParamLine(StripNamespace(p, arg.name)) : p \in Harvested }
           /\ \A i \in 2..(Len(lines) - 1) : StrLess(lines[i], lines[i + 1])

(***************************************************************************)
(* Properties of gendata's backup, in a run of main                        *)
(***************************************************************************)

\* C11: in gendata, a step that changes an existing eri.conf of a namespace
\* directory leaves, in the same step, a new backup holding the content the
\* file had before; and a step that logs a failed backup copy for a namespace
\* leaves the file system as it was (the original file is untouched).
C11_BackupBeforeOverwrite ==
    [][ /\ \A n \in DOMAIN fs.dirs :
              (/\ fs.dirs[n].is_dir
               /\ fs.dirs[n].conf.kind # "absent"
               /\ fs'.dirs[n].conf # fs.dirs[n].conf)
              => fs'.dirs[n].backups = Append(fs.dirs[n].backups, fs.dirs[n].conf)
        /\ (/\ Len(errors') = Len(errors) + 1
            /\ errors'[Len(errors')].cause = sBackupFailed)
           => /\ fs' = fs
              /\ errors'[Len(errors')].op = "gendata"
              /\ errors'[Len(errors')].name = namespaces[nsIdx].name ]_vars

\* gendata has overwritten namespace a's override file {k = 2}, and the backup
\* holds it.
C11_Witness ==
    /\ cmd = "gendata"
    /\ fs.dirs[sA].conf.kind = "generated"
    /\ fs.dirs[sA].backups = <<ConfFile(sK :> Number(2))>>

\* A backup copy failed for namespace a and its override file is as it was.
C11_WitnessFailed ==
    /\ \E i \in 1..Len(errors) :
           errors[i].cause = sBackupFailed /\ errors[i].name = sA
    /\ fs.dirs[sA].conf = ConfFile(sK :> Number(2))
    /\ fs.dirs[sA].backups = <<>>

(***************************************************************************)
(* Function-level specification of chown and chmod                         *)
(***************************************************************************)

\* The errno values drawn: 0 (the call succeeded) to MaxErrno.
MaxErrno == 40

InitErrno ==
    /\ pc = "sys"
    /\ \E op \in {"chown", "chmod"}, errno \in 0..MaxErrno :
           arg = [op |-> op, errno |-> errno]
    /\ ret = None
    /\ cmd = "none" /\ config = None /\ fs = None /\ namespaces = <<>>
    /\ nsIdx = 0 /\ phase = "none" /\ templates = <<>> /\ tIdx = 0
    /\ registry = EmptyMap /\ errors = <<>> /\ exitCode = -1

ApplyChownChmod ==
    /\ pc = "sys"
    /\ ret' = IF arg.op = "chown" THEN Chown(arg.errno) ELSE Chmod(arg.errno)
    /\ pc' = "called"
    /\ UNCHANGED <<cmd, config, fs, namespaces, nsIdx, phase, templates, tIdx,
                   registry, errors, exitCode, arg>>

NextErrno == ApplyChownChmod

SpecErrno == InitErrno /\ [][NextErrno]_vars

\* C12 as stated: for chown and chmod alike, a failure with EPERM or EROFS is
\* returned as an error, and a failure with any other errno is fatal (a panic),
\* never a returned error.
C12_OnlyPermAndRofsRecoverable ==
    (pc = "called" /\ arg.errno # 0) =>
        IF arg.errno \in {EPERM, EROFS}
        THEN ret.status = "Err"
        ELSE ret.status = "Panic"

\* C12 amended: chown returns an error for EPERM and EROFS, chmod for EPERM,
\* EROFS and also ENOENT; a failure with any other errno is fatal for both.
C12_ErrnoTaxonomy ==
    (pc = "called" /\ arg.errno # 0) =>
        IF \/ arg.errno \in {EPERM, EROFS}
           \/ arg.op = "chmod" /\ arg.errno = ENOENT
        THEN ret.status = "Err"
        ELSE ret.status = "Panic"

\* chmod has failed with ENOENT and returned an error.
C12_Witness ==
    /\ pc = "called"
    /\ arg = [op |-> "chmod", errno |-> ENOENT]
    /\ ret.status = "Err"

(***************************************************************************)
(* Function-level specification of Namespace::templates and Template::new  *)
(***************************************************************************)

MaxEntries == 2

\* Export policies as configuration loading can leave them: each of user, group
\* and permissions set or unset.
ResolveExports ==
    { [dir |-> Some(sOut), user |-> u, group |-> g, permissions |-> p] :
        u \in {None, Some("root")}, g \in {None, Some("wheel")},
        p \in {None, Some(420)} }

\* The i-th entry of a namespace directory: a template file of alice:staff with
\* mode 0o600 or of bob:users with mode 0o755, a file whose owner has no passwd
\* entry, or a sub-directory.
ResolveEntries(i) ==
    { File(FileName(i), TRUE, <<>>, "alice", "staff", 384),
      File(FileName(i), TRUE, <<>>, "bob", "users", 493),
      File(FileName(i), TRUE, <<>>, "?", "staff", 384),
      SubDir(FileName(i)) }

ResolveListings ==
    UNION { { l \in [1..n -> UNION { ResolveEntries(i) : i \in 1..n }] :
                \A i \in 1..n : l[i] \in ResolveEntries(i) } :
            n \in 0..MaxEntries }

InitResolve ==
    /\ pc = "new"
    /\ \E x \in ResolveExports, l \in ResolveListings,
          c \in {ConfAbsent, ConfFile(EmptyMap)}, name \in {sA, sAB} :
           arg = [name |-> name, export |-> x, dirs |-> (name :> Dir(c, l))]
    /\ ret = None
    /\ cmd = "none" /\ config = None /\ fs = None /\ namespaces = <<>>
    /\ nsIdx = 0 /\ phase = "none" /\ templates = <<>> /\ tIdx = 0
    /\ registry = EmptyMap /\ errors = <<>> /\ exitCode = -1

\* Namespace::new with the global export policy, and the read_dir of templates().
ResolveNamespace ==
    /\ pc = "new"
    /\ namespaces' = <<NamespaceNew(arg.name, arg.export, EmptyMap, arg.dirs).val>>
    /\ pc' = "discover"
    /\ tIdx' = 1
    /\ UNCHANGED <<cmd, config, fs, nsIdx, phase, templates, registry, errors,
                   exitCode, arg, ret>>

\* One turn of the loop of Namespace::templates (namespace.rs 99-124): eri.conf
\* is passed over, any other entry goes to Template::new and the template is
\* pushed, or the error is returned, or the panic unwinds.
DiscoverEntry ==
    /\ pc = "discover"
    /\ tIdx <= Len(ReadDir(arg.dirs[arg.name]))
    /\ LET ns == namespaces[1]
           file == ReadDir(arg.dirs[arg.name])[tIdx]
           r == TemplateNew(ns.name \o <<"/">> \o file.file_name, file, ns.data,
                            ns.export_config)
       IN IF file.file_name = sEriConf
          THEN /\ tIdx' = tIdx + 1
               /\ UNCHANGED <<pc, namespaces, templates, ret>>
          ELSE IF r.status = "Ok"
          THEN /\ templates' = Append(templates, r.val)
               /\ namespaces' = <<NamespaceAfterNew(ns, r.val)>>
               /\ tIdx' = tIdx + 1
               /\ UNCHANGED <<pc, ret>>
          ELSE /\ ret' = r
               /\ pc' = "discovered"
               /\ UNCHANGED <<namespaces, templates, tIdx>>
    /\ UNCHANGED <<cmd, config, fs, nsIdx, phase, registry, errors, exitCode, arg>>

\* The loop is over: templates() returns Ok(vec).
DiscoverDone ==
    /\ pc = "discover"
    /\ tIdx > Len(ReadDir(arg.dirs[arg.name]))
    /\ ret' = Ok(templates)
    /\ pc' = "discovered"
    /\ UNCHANGED <<cmd, config, fs, namespaces, nsIdx, phase, templates, tIdx,
                   registry, errors, exitCode, arg>>

\* Template::new once more, for the policy a template already resolved and
\* another source file of the directory.
ResolveAgain ==
    /\ pc = "discovered"
    /\ ret.status = "Ok"
    /\ \E i \in 1..Len(templates), j \in 1..Len(arg.dirs[arg.name].entries) :
         /\ ~arg.dirs[arg.name].entries[j].is_dir
         /\ ret' = [first |-> templates[i],
                    entry |-> arg.dirs[arg.name].entries[j],
                    again |-> TemplateNew(templates[i].name,
                                          arg.dirs[arg.name].entries[j],
                                          templates[i].data,
                                          templates[i].export_config)]
    /\ pc' = "resolved again"
    /\ UNCHANGED <<cmd, config, fs, namespaces, nsIdx, phase, templates, tIdx,
                   registry, errors, exitCode, arg>>

NextResolve == ResolveNamespace \/ DiscoverEntry \/ DiscoverDone \/ ResolveAgain

SpecResolve == InitResolve /\ [][NextResolve]_vars

\* The step-by-step loop gives what Namespace::templates gives as a whole.
ResolveAgrees ==
    (pc = "discovered") => ret = NamespaceTemplates(
        NamespaceNew(arg.name, arg.export, EmptyMap, arg.dirs).val, arg.dirs)

RECURSIVE QualifiedNames(_, _)
QualifiedNames(name, entries) ==
    IF entries = <<>> THEN <<>>
    ELSE (IF Head(entries).file_name = sEriConf THEN <<>>
          ELSE <<name \o <<"/">> \o Head(entries).file_name>>)
         \o QualifiedNames(name, Tail(entries))

\* C17: template discovery on a namespace does not crash the run, whatever the
\* entries of the directory (a sub-directory among them gives a Template or at
\* worst an error); and when it returns templates, they are one per entry other
\* than eri.conf, named <namespace>/<entry-filename>, in iteration order.
C17_DiscoveryNeverCrashes ==
    (pc = "discovered") =>
        /\ ret.status \in {"Ok", "Err"}
        /\ ret.status = "Ok" =>
               [i \in 1..Len(ret.val) |-> ret.val[i].name]
                   = QualifiedNames(arg.name, ReadDir(arg.dirs[arg.name]))

(***************************************************************************)
(* Function-level specification of Template::render                        *)
(***************************************************************************)

\* Permission modes of the export policy: 0o000, 0o111, 0o600, 0o644, 0o666,
\* 0o755, 0o777.
RenderModes == {0, 73, 384, 420, 438, 493, 511}

\* The export directory before the call: not there, there and empty, there with
\* files t and b of an earlier run, or there as something that is no directory.
RenderOuts ==
    {OutAbsent, OutDir(EmptyMap), OutDir((sT :> OldFile) @@ (sB :> OldFile)), OutNotDir}

InitRender ==
    /\ pc = "render"
    /\ \E name \in {sA, sAB}, p \in {None} \cup { Some(m) : m \in RenderModes },
          fault \in Faults :
           arg = [name |-> name,
                  export |-> [dir |-> Some(sOut), user |-> None, group |-> None,
                              permissions |-> p],
                  data |-> (sA :> Object(sK :> Number(1))),
                  dirs |-> (name :> Dir(ConfAbsent,
                                        <<File(sT, TRUE, <<Var(sAK)>>,
                                               "alice", "staff", 384)>>)),
                  fault |-> fault]
    /\ \E o \in RenderOuts : fs = [out |-> o]
    /\ ret = None
    /\ cmd = "render" /\ config = None /\ namespaces = <<>>
    /\ nsIdx = 0 /\ phase = "none" /\ templates = <<>> /\ tIdx = 0
    /\ registry = EmptyMap /\ errors = <<>> /\ exitCode = -1

\* Namespace::new, templates() and register for the one template, then
\* Template::render with the fault of this call.
ApplyTemplateRender ==
    /\ pc = "render"
    /\ LET ns == NamespaceNew(arg.name, arg.export, arg.data, arg.dirs).val
           t == NamespaceTemplates(ns, arg.dirs).val[1]
           reg == TemplateRegister(t, EmptyMap).val
           r == TemplateRender(t, reg, fs.out, arg.fault)
       IN /\ ret' = [template |-> t,
                     text |-> HandlebarsRender(reg[t.name], t.data),
                     before |-> fs.out,
                     res |-> r.res]
          /\ fs' = [fs EXCEPT !.out = r.out]
    /\ pc' = "rendered"
    /\ UNCHANGED <<cmd, config, namespaces, nsIdx, phase, templates, tIdx,
                   registry, errors, exitCode, arg>>

NextRender == ApplyTemplateRender

SpecRender == InitRender /\ [][NextRender]_vars

\* The permission bits.
ModeBits == {1, 2, 4, 8, 16, 32, 64, 128, 256}

\* The files of the export directory that the call's template created or
\* truncated.
FilesOfCall ==
    { f \in DOMAIN fs.out.files : fs.out.files[f].from = ret.template.name }

\* C15: a destination directory that render created and got as far as chmod
\* has the template's resolved mode with the three execute bits set and every
\* other bit as resolved, and the template's owner and group; a directory that
\* was there keeps its owner, group and mode; and the output file of a render
\* that succeeded has the resolved owner, group and mode, whether the directory
\* or the file was there before or not.
C15_DirectoryModeForcesExec ==
    (pc = "rendered") =>
        LET x == ret.template.export_config
            made == ret.before.kind = "absent" /\ fs.out.kind = "dir"
        IN /\ (made /\ arg.fault.site \notin {"dir_chown", "dir_chmod"}) =>
                  /\ \A b \in ModeBits :
                         ModeHas(fs.out.mode, b) =
                             (b \in {USER_EXEC, GROUP_EXEC, OTHERS_EXEC}
                              \/ ModeHas(x.permissions.val, b))
                  /\ fs.out.mode < 512
                  /\ fs.out.user = x.user.val
                  /\ fs.out.group = x.group.val
           /\ (ret.before.kind = "dir") =>
                  /\ fs.out.user = ret.before.user
                  /\ fs.out.group = ret.before.group
                  /\ fs.out.mode = ret.before.mode
           /\ (ret.res.status = "Ok") =>
                  /\ FilesOfCall # {}
                  /\ \A f \in FilesOfCall :
                         /\ fs.out.files[f].user = x.user.val
                         /\ fs.out.files[f].group = x.group.val
                         /\ fs.out.files[f].mode = x.permissions.val

\* The specification's example: mode 0o600 gives a new directory of mode 0o711.
C15_Witness ==
    /\ pc = "rendered"
    /\ ret.before.kind = "absent"
    /\ ret.template.export_config.permissions = Some(384)
    /\ ret.res.status = "Ok"
    /\ fs.out.kind = "dir"
    /\ fs.out.mode = 457
    /\ fs.out.user = "alice"

\* C16: the output file a successful render writes is <policy.dir>/<f>, f being
\* the directory-entry filename the template was discovered under, for every
\* namespace name, one with a '/' too: that file holds the rendered text, and
\* no other file of the directory is created or changed.
C16_OutputNamedAfterEntry ==
    (pc = "rendered" /\ ret.res.status = "Ok") =>
        LET f == ret.template.path.file_name
        IN /\ f \in DOMAIN fs.out.files
           /\ fs.out.files[f].content = ret.text
           /\ \A g \in DOMAIN fs.out.files \ {f} :
                  /\ g \in DOMAIN ret.before.files
                  /\ fs.out.files[g] = ret.before.files[g]

\* C18: render's steps run in the order text rendering, directory handling,
\* file creation, chown and chmod of the file, writing. (a) When text rendering
\* fails, the export directory and its files are as before. (b) The text is in
\* the output file only when chown and chmod of the file succeeded and the
\* call returned Ok; when chown or chmod of the file fails, the file exists and
\* is empty, whatever it held before. No step runs after one that failed: a
\* failure in the directory handling or in the creation leaves the files as
\* they were.
C18_StepsInOrder ==
    (pc = "rendered") =>
        /\ (arg.fault.site = "render") =>
               /\ ret.res.status = "Err"
               /\ fs.out = ret.before
        /\ (arg.fault.site \in {"create_dir", "dir_chown", "dir_chmod", "create"}
              /\ ret.res.status # "Ok") =>
               /\ fs.out.files = ret.before.files
        /\ (arg.fault.site \in {"chown", "chmod"} /\ ret.before.kind # "file") =>
               /\ ret.res.status # "Ok"
               /\ FilesOfCall # {}
               /\ \A f \in FilesOfCall : fs.out.files[f].content = <<>>
        /\ \A f \in FilesOfCall :
               (fs.out.files[f].content # <<>>) =>
                   /\ ret.res.status = "Ok"
                   /\ fs.out.files[f].content = ret.text
                   /\ fs.out.files[f].user = ret.template.export_config.user.val
                   /\ fs.out.files[f].mode = ret.template.export_config.permissions.val

\* chmod of the output file failed with EPERM: the file that held a text is
\* there, empty, with the new owner and the old mode.
C18_Witness ==
    /\ pc = "rendered"
    /\ arg.fault = [site |-> "chmod", errno |-> EPERM]
    /\ arg.name = sA
    /\ ret.before.kind = "dir" /\ sT \in DOMAIN ret.before.files
    /\ ret.before.files[sT].content = <<String>>
    /\ ret.res.status = "Err"
    /\ fs.out.files[sT].content = <<>>
    /\ fs.out.files[sT].user = "alice"
    /\ fs.out.files[sT].mode = 420

====
